---- MODULE Spec2Model ----
(***************************************************************************)
(* Model of the marker-search path resolvers of Path-Set-Find:             *)
(*   autoPath_v1.0.py   (non-system drives first, system drive last)       *)
(*   autoPath_v1.py     (drives in enumeration order)                      *)
(*   autoSet_path.py    (fixed depth 3, plain substring targets)           *)
(*   simple_path_manager.py  find_marker_paths (set_path.txt scan)         *)
(* Python strings are sequences of one-character strings, so that          *)
(* slicing, substring tests, splitting and case conversion are computed.   *)
(***************************************************************************)
EXTENDS Integers, Sequences, FiniteSets, TLC

\* ------------------------------------------------------------------------
\* Characters and Python string primitives
\* ------------------------------------------------------------------------
LOWER == <<"a","b","c","d","e","f","g","h","i","j","k","l","m","n","o","p","q","r","s","t","u","v","w","x","y","z">>
UPPER == <<"A","B","C","D","E","F","G","H","I","J","K","L","M","N","O","P","Q","R","S","T","U","V","W","X","Y","Z">>
DIGITS == <<"0","1","2","3","4","5","6","7","8","9">>

\* 1-based position of c in seq, 0 when absent
IndexIn(c, seq) ==
    IF \E i \in 1..Len(seq) : seq[i] = c
    THEN CHOOSE i \in 1..Len(seq) : seq[i] = c /\ \A j \in 1..(i-1) : seq[j] # c
    ELSE 0

IsLetter(c) == IndexIn(c, LOWER) > 0 \/ IndexIn(c, UPPER) > 0
IsDigit(c) == IndexIn(c, DIGITS) > 0

\* str.upper() / str.lower(), one character
UpperChar(c) == IF IndexIn(c, LOWER) > 0 THEN UPPER[IndexIn(c, LOWER)] ELSE c
LowerChar(c) == IF IndexIn(c, UPPER) > 0 THEN LOWER[IndexIn(c, UPPER)] ELSE c
StrUpper(s) == [i \in 1..Len(s) |-> UpperChar(s[i])]
StrLower(s) == [i \in 1..Len(s) |-> LowerChar(s[i])]

\* s[n:]  (n is a 0-based Python index, n >= 0)
SliceFrom(s, n) == SubSeq(s, n + 1, Len(s))
\* s[:n]
SliceTo(s, n) == SubSeq(s, 1, IF n < Len(s) THEN n ELSE Len(s))

\* s.count(c) for a one-character c
Count(s, c) == Cardinality({i \in 1..Len(s) : s[i] = c})

\* t occurs in s at 0-based offset k
OccursAt(s, t, k) == k + Len(t) <= Len(s) /\ SubSeq(s, k + 1, k + Len(t)) = t

\* `t in s`
Contains(t, s) == \E k \in 0..Len(s) : OccursAt(s, t, k)

\* s.find(t): leftmost 0-based offset, -1 when absent
Find(s, t) ==
    IF Contains(t, s)
    THEN CHOOSE k \in 0..Len(s) : OccursAt(s, t, k) /\ \A j \in 0..(k-1) : ~OccursAt(s, t, j)
    ELSE -1

StartsWith(s, t) == OccursAt(s, t, 0)

\* s.split(sep) for a non-empty separator: the list of pieces
RECURSIVE Split(_, _)
Split(s, sep) ==
    IF Find(s, sep) = -1 THEN <<s>>
    ELSE <<SliceTo(s, Find(s, sep))>> \o Split(SliceFrom(s, Find(s, sep) + Len(sep)), sep)

\* int(s) succeeds on a non-empty run of decimal digits (else ValueError)
IntOk(s) == Len(s) > 0 /\ \A i \in 1..Len(s) : IsDigit(s[i])
RECURSIVE IntOf(_)
IntOf(s) ==
    IF Len(s) = 0 THEN 0
    ELSE 10 * IntOf(SubSeq(s, 1, Len(s) - 1)) + (IndexIn(s[Len(s)], DIGITS) - 1)

\* ord(c) for a printable ASCII character from '#' (35) to '~' (126)
ASCII == <<"#","$","%","&","'","(",")","*","+",",","-",".","/","0","1","2","3","4","5","6","7","8","9",":",";","<","=",">","?","@","A","B","C","D","E","F","G","H","I","J","K","L","M","N","O","P","Q","R","S","T","U","V","W","X","Y","Z","[","\\","]","^","_","backtick","a","b","c","d","e","f","g","h","i","j","k","l","m","n","o","p","q","r","s","t","u","v","w","x","y","z","{","|","}","~">>
Ord(c) == 34 + IndexIn(c, ASCII)

\* Python values that choose_path can hold in chosen_path
None == [t |-> "none"]
NaN == [t |-> "nan"]
Str(s) == [t |-> "str", s |-> s]
\* truth value of `if chosen_path:`  (NaN is a non-zero float)
Truthy(v) == v.t = "nan" \/ (v.t = "str" /\ Len(v.s) > 0)

\* ------------------------------------------------------------------------
\* Platform and path primitives (os.sep, os.path.join, os.path.dirname)
\* ------------------------------------------------------------------------
Systems == {"Windows", "Linux", "Darwin"}

Sep(system) == IF system = "Windows" THEN "\\" ELSE "/"
IsSep(system, c) == IF system = "Windows" THEN c \in {"\\", "/"} ELSE c = "/"

\* os.path.join(a, name) for a relative one-component name
Join(system, a, name) ==
    IF Len(a) = 0 \/ IsSep(system, a[Len(a)]) \/ (system = "Windows" /\ a[Len(a)] = ":")
    THEN a \o name
    ELSE a \o <<Sep(system)>> \o name

\* length of the drive part taken off by ntpath.splitdrive ("C:")
DriveLen(system, p) == IF system = "Windows" /\ Len(p) >= 2 /\ p[2] = ":" THEN 2 ELSE 0

\* number of characters up to and including the last separator (0 if none)
LastSep(system, s) ==
    IF \E i \in 1..Len(s) : IsSep(system, s[i])
    THEN CHOOSE i \in 1..Len(s) : IsSep(system, s[i]) /\ \A j \in (i+1)..Len(s) : ~IsSep(system, s[j])
    ELSE 0

\* s.rstrip(separators)
RECURSIVE RStripSep(_, _)
RStripSep(system, s) ==
    IF Len(s) > 0 /\ IsSep(system, s[Len(s)]) THEN RStripSep(system, SubSeq(s, 1, Len(s) - 1)) ELSE s

\* variant of Dirname: the head keeps its trailing separator
DirnameKeepsSeparator(system, p) ==
    LET d == DriveLen(system, p)
        rest == SliceFrom(p, d)
    IN  SliceTo(p, d) \o SliceTo(rest, LastSep(system, rest))

\* os.path.dirname(p)
Dirname(system, p) ==
    LET d == DriveLen(system, p)
        rest == SliceFrom(p, d)
        head == SliceTo(rest, LastSep(system, rest))
        stripped == RStripSep(system, head)
    IN  SliceTo(p, d) \o (IF Len(stripped) = 0 THEN head ELSE stripped)

\* ------------------------------------------------------------------------
\* Marker names of the three resolver scripts and of the path manager
\* ------------------------------------------------------------------------
SETPATH == <<"_","s","e","t","p","a","t","h","_">>
SETTHISPATH == <<"_","s","e","t","t","h","i","s","p","a","t","h","_">>
SETFROMCSV == <<"_","s","e","t","f","r","o","m","c","s","v","_">>
SETFROMCSV_B == <<"_","s","e","t","f","r","o","m","c","s","v","_","b">>
MARKER_FILENAME == <<"s","e","t","_","p","a","t","h",".","t","x","t">>

Scripts == {"autoPath_v1_0", "autoPath_v1", "autoSet_path"}

\* target_files of choose_path
TargetFiles(script) ==
    IF script = "autoSet_path" THEN <<SETPATH, SETTHISPATH, SETFROMCSV_B>>
    ELSE <<SETPATH, SETTHISPATH, SETFROMCSV>>

\* number of leading decimal digits of s
RECURSIVE DigitRun(_)
DigitRun(s) == IF Len(s) > 0 /\ IsDigit(s[1]) THEN 1 + DigitRun(Tail(s)) ELSE 0

\* the regular expression _setfromcsv_([a-zA-Z]\d+)_ matches file at 0-based offset k
RegexAt(file, k) ==
    /\ OccursAt(file, SETFROMCSV, k)
    /\ LET rest == SliceFrom(file, k + Len(SETFROMCSV))
       IN  /\ Len(rest) >= 3
           /\ IsLetter(rest[1])
           /\ DigitRun(Tail(rest)) >= 1
           /\ Len(rest) >= 2 + DigitRun(Tail(rest))
           /\ rest[2 + DigitRun(Tail(rest))] = "_"

\* re.search: group(1) of the leftmost match, <<>> when there is none
RegexGroup(file) ==
    IF \E k \in 0..Len(file) : RegexAt(file, k)
    THEN LET k == CHOOSE k \in 0..Len(file) : RegexAt(file, k) /\ \A j \in 0..(k-1) : ~RegexAt(file, j)
             rest == SliceFrom(file, k + Len(SETFROMCSV))
         IN  SubSeq(rest, 1, 1 + DigitRun(Tail(rest)))
    ELSE <<>>

NoMatch == [found |-> FALSE]
Match(file_path, target_file) == [found |-> TRUE, file_path |-> file_path, target_file |-> target_file]

\* the inner loop `for target_file in target_files` for one file, targets from index i on
RECURSIVE MatchTargets(_, _, _, _, _, _)
MatchTargets(script, system, root, file, targets, i) ==
    IF i > Len(targets) THEN NoMatch
    ELSE IF script # "autoSet_path" /\ targets[i] = SETFROMCSV
         THEN IF RegexGroup(file) # <<>>
              THEN Match(Join(system, root, file), SETFROMCSV \o RegexGroup(file) \o <<"_">>)
              ELSE MatchTargets(script, system, root, file, targets, i + 1)
         ELSE IF Contains(targets[i], file)
              THEN Match(Join(system, root, file), targets[i])
              ELSE MatchTargets(script, system, root, file, targets, i + 1)

\* the outer loop `for file in files`: the first file that hits some target
RECURSIVE MatchFiles(_, _, _, _)
MatchFiles(script, system, root, files) ==
    IF Len(files) = 0 THEN NoMatch
    ELSE IF MatchTargets(script, system, root, files[1], TargetFiles(script), 1).found
         THEN MatchTargets(script, system, root, files[1], TargetFiles(script), 1)
         ELSE MatchFiles(script, system, root, Tail(files))

\* ------------------------------------------------------------------------
\* The CSV table (paths.csv) and read_path_from_csv
\* ------------------------------------------------------------------------
Absent == <<>>
DATA_ARCHIVE == <<"/","d","a","t","a","/","a","r","c","h","i","v","e">>
\* five rows, two columns; cell B5 holds /data/archive
TableA ==
    << << <<"/","r","1","A">>, <<"/","r","1","B">> >>,
       << <<"/","r","2","A">>, <<"/","r","2","B">> >>,
       << <<"/","r","3","A">>, <<"/","r","3","B">> >>,
       << <<"/","r","4","A">>, <<"/","r","4","B">> >>,
       << <<"/","r","5","A">>, DATA_ARCHIVE >> >>
\* two rows, one column
TableB ==
    << << <<"/","s","1","A">> >>,
       << <<"/","s","2","A">> >> >>
Tables == {Absent, TableA, TableB}

rowCount(table) == Len(table)
columnCount(table) == Len(table[1])
\* the raw field at 0-based row r, column c
cellAt(table, r, c) == table[r + 1][c + 1]

\* pandas turns an empty field into NaN, any other field of these tables stays a string
CellValue(field) == IF Len(field) = 0 THEN NaN ELSE Str(field)

\* df.iat[row, col]: negative positions count from the end, IndexError outside
IatOk(table, row, col) ==
    /\ -rowCount(table) <= row /\ row < rowCount(table)
    /\ -columnCount(table) <= col /\ col < columnCount(table)
Iat(table, row, col) ==
    CellValue(cellAt(table,
                     IF row < 0 THEN row + rowCount(table) ELSE row,
                     IF col < 0 THEN col + columnCount(table) ELSE col))

\* variant of RowOf: the row number is used as the index, without the - 1
RowOfNoOffset(cell_reference) == IntOf(SliceFrom(cell_reference, 1))

\* row, col = int(cell_reference[1:]) - 1, ord(cell_reference[0].upper()) - ord('A')
RowOf(cell_reference) == IntOf(SliceFrom(cell_reference, 1)) - 1
ColOf(cell_reference) == Ord(UpperChar(cell_reference[1])) - Ord("A")

read_path_from_csv(csv_file, cell_reference) ==
    IF csv_file = Absent THEN None                                   \* FileNotFoundError
    ELSE IF ~IntOk(SliceFrom(cell_reference, 1)) THEN None           \* ValueError
    ELSE IF Len(cell_reference) = 0 THEN None                        \* IndexError
    ELSE IF ~IatOk(csv_file, RowOf(cell_reference), ColOf(cell_reference)) THEN None   \* IndexError
    ELSE Iat(csv_file, RowOf(cell_reference), ColOf(cell_reference))

\* cell = target_file.split(...)[...].upper()
CellOf(script, target_file) ==
    IF script = "autoSet_path"
    THEN StrUpper(Split(target_file, <<"_","b">>)[2])
    ELSE StrUpper(Split(target_file, <<"_">>)[3])

set_path_based_on_file(script, system, drive, file_path, target_file, csv_file) ==
    IF target_file = SETPATH THEN Str(drive)
    ELSE IF target_file = SETTHISPATH THEN Str(Dirname(system, file_path))
    ELSE IF StartsWith(target_file, IF script = "autoSet_path" THEN SETFROMCSV_B ELSE SETFROMCSV)
         THEN read_path_from_csv(csv_file, CellOf(script, target_file))
    ELSE None

\* ------------------------------------------------------------------------
\* Drives
\* ------------------------------------------------------------------------
is_system_drive(system, drive) ==
    IF system = "Windows" THEN StrLower(drive) = <<"c",":","\\">>
    ELSE IF system \in {"Linux", "Darwin"} THEN drive = <<"/">>
    ELSE FALSE

\* os.path.exists / os.path.isdir on a directory path of the tree
Exists(tree, p) == \E d \in tree : d.path = p
Entry(tree, p) == CHOOSE d \in tree : d.path = p

get_available_drives(script, system, tree) ==
    LET letters == SelectSeq([i \in 1..26 |-> <<UPPER[i], ":", "\\">>], LAMBDA d : Exists(tree, d))
        mounts == IF system = "Windows" THEN letters
                  ELSE IF system = "Linux" THEN << <<"/","m","e","d","i","a">>, <<"/","m","n","t">> >>
                  ELSE << <<"/","V","o","l","u","m","e","s">> >>
    IN  IF script # "autoSet_path" /\ system \in {"Linux", "Darwin"}
        THEN Append(mounts, <<"/">>)
        ELSE mounts

\* the depth the search loop computes for a directory handed over by os.walk
max_system_depth == 2
max_depth == 3
depth(system, drive, root) == Count(SliceFrom(root, Len(drive)), Sep(system))

\* variant of Pruned: the system drive bound compared with > instead of >=
PrunedStrictlyAbove(script, system, drive, root) ==
    IF script = "autoSet_path"
    THEN depth(system, drive, root) > max_depth
    ELSE is_system_drive(system, drive) /\ depth(system, drive, root) > max_system_depth

\* the loop body stops the descent below root (dirs[:] = []; continue)
Pruned(script, system, drive, root) ==
    IF script = "autoSet_path"
    THEN depth(system, drive, root) > max_depth
    ELSE is_system_drive(system, drive) /\ depth(system, drive, root) >= max_system_depth

\* ------------------------------------------------------------------------
\* find_marker_paths of simple_path_manager.py
\* ------------------------------------------------------------------------
DEFAULT_MAX_DEPTH == 2

\* os.path.normpath on an absolute path without . or .. parts: trailing
\* separators go, a path of separators only stays the root
normpath(system, p) ==
    LET d == DriveLen(system, p)
        rest == SliceFrom(p, d)
        stripped == RStripSep(system, rest)
    IN  SliceTo(p, d) \o (IF Len(stripped) = 0 THEN SliceTo(rest, 1) ELSE stripped)
expand(system, p) == normpath(system, p)

\* s.lstrip(separators)
RECURSIVE LStripSep(_, _)
LStripSep(system, s) ==
    IF Len(s) > 0 /\ IsSep(system, s[1]) THEN LStripSep(system, Tail(s)) ELSE s

\* os.path.relpath(path, base) for a path at or below base
relpath(system, path, base) ==
    IF LStripSep(system, SliceFrom(path, Len(base))) = <<>> THEN <<".">>
    ELSE LStripSep(system, SliceFrom(path, Len(base)))

rel_depth(system, path, base) ==
    IF relpath(system, path, base) = <<".">> THEN 0
    ELSE Count(relpath(system, path, base), Sep(system)) + 1

\* depth = int(d_input) if d_input and 1 <= int(d_input) <= 5 else DEFAULT_MAX_DEPTH
ScanDepth(d_input) == IF 1 <= d_input /\ d_input <= 5 THEN d_input ELSE DEFAULT_MAX_DEPTH

\* lexicographic order of Python strings
RECURSIVE StrLess(_, _)
StrLess(a, b) ==
    IF Len(b) = 0 THEN FALSE
    ELSE IF Len(a) = 0 THEN TRUE
    ELSE IF a[1] = b[1] THEN StrLess(Tail(a), Tail(b))
    ELSE Ord(a[1]) < Ord(b[1])

\* sorted(list(dict.fromkeys(found)))
RECURSIVE SortedSet(_)
SortedSet(S) ==
    IF S = {} THEN <<>>
    ELSE LET m == CHOOSE x \in S : \A y \in S \ {x} : StrLess(x, y)
         IN  <<m>> \o SortedSet(S \ {m})
Range(seq) == {seq[i] : i \in 1..Len(seq)}
\* variant of uniq: duplicates go, the order of first occurrence stays
uniqKeepsFoundOrder(found) ==
    LET first == {i \in 1..Len(found) : \A j \in 1..(i - 1) : found[j] # found[i]}
        at == CHOOSE f \in [1..Cardinality(first) -> first] :
                  \A i, j \in 1..Cardinality(first) : i < j => f[i] < f[j]
    IN  [i \in 1..Cardinality(first) |-> found[at[i]]]
uniq(found) == SortedSet(Range(found))

\* ------------------------------------------------------------------------
\* Directory trees the scans run on (listing order as given)
\* ------------------------------------------------------------------------
LinuxTree ==
    {
      [path |-> <<"/">>,
       subs |-> <<<<"m","e","d","i","a">>, <<"m","n","t">>, <<"a">>>>],
      [path |-> <<"/","m","e","d","i","a">>,
       subs |-> <<<<"u">>, <<"s">>, <<"t">>>>],
      [path |-> <<"/","m","e","d","i","a","/","s">>,
       subs |-> <<>>],
      [path |-> <<"/","m","e","d","i","a","/","u">>,
       subs |-> <<<<"v">>>>],
      [path |-> <<"/","m","e","d","i","a","/","u","/","v">>,
       subs |-> <<<<"w">>>>],
      [path |-> <<"/","m","e","d","i","a","/","u","/","v","/","w">>,
       subs |-> <<<<"x">>>>],
      [path |-> <<"/","m","e","d","i","a","/","u","/","v","/","w","/","x">>,
       subs |-> <<<<"y">>>>],
      [path |-> <<"/","m","e","d","i","a","/","u","/","v","/","w","/","x","/","y">>,
       subs |-> <<>>],
      [path |-> <<"/","m","e","d","i","a","/","t">>,
       subs |-> <<>>],
      [path |-> <<"/","m","n","t">>,
       subs |-> <<<<"p">>>>],
      [path |-> <<"/","m","n","t","/","p">>,
       subs |-> <<>>],
      [path |-> <<"/","a">>,
       subs |-> <<<<"s">>, <<"b">>>>],
      [path |-> <<"/","a","/","s">>,
       subs |-> <<>>],
      [path |-> <<"/","a","/","b">>,
       subs |-> <<<<"c">>>>],
      [path |-> <<"/","a","/","b","/","c">>,
       subs |-> <<<<"d">>>>],
      [path |-> <<"/","a","/","b","/","c","/","d">>,
       subs |-> <<>>]
    }
DarwinTree ==
    {
      [path |-> <<"/">>,
       subs |-> <<<<"V","o","l","u","m","e","s">>, <<"a">>>>],
      [path |-> <<"/","V","o","l","u","m","e","s">>,
       subs |-> <<<<"s">>, <<"u">>>>],
      [path |-> <<"/","V","o","l","u","m","e","s","/","s">>,
       subs |-> <<>>],
      [path |-> <<"/","V","o","l","u","m","e","s","/","u">>,
       subs |-> <<>>],
      [path |-> <<"/","a">>,
       subs |-> <<<<"b">>>>],
      [path |-> <<"/","a","/","b">>,
       subs |-> <<<<"c">>>>],
      [path |-> <<"/","a","/","b","/","c">>,
       subs |-> <<>>]
    }
WindowsTree ==
    {
      [path |-> <<"A",":","\\">>,
       subs |-> <<<<"u">>>>],
      [path |-> <<"A",":","\\","u">>,
       subs |-> <<>>],
      [path |-> <<"C",":","\\">>,
       subs |-> <<<<"a">>>>],
      [path |-> <<"C",":","\\","a">>,
       subs |-> <<<<"b">>>>],
      [path |-> <<"C",":","\\","a","\\","b">>,
       subs |-> <<<<"c">>>>],
      [path |-> <<"C",":","\\","a","\\","b","\\","c">>,
       subs |-> <<<<"d">>>>],
      [path |-> <<"C",":","\\","a","\\","b","\\","c","\\","d">>,
       subs |-> <<>>],
      [path |-> <<"D",":","\\">>,
       subs |-> <<<<"u">>, <<"s">>, <<"t">>>>],
      [path |-> <<"D",":","\\","s">>,
       subs |-> <<>>],
      [path |-> <<"D",":","\\","u">>,
       subs |-> <<>>],
      [path |-> <<"D",":","\\","t">>,
       subs |-> <<>>]
    }

\* directories that exist but cannot be listed (scandir fails with PermissionError)
Unreadable(sys) ==
    IF sys = "Linux" THEN { <<"/","m","e","d","i","a","/","s">>, <<"/","a","/","s">> }
    ELSE IF sys = "Darwin" THEN { <<"/","V","o","l","u","m","e","s","/","s">> }
    ELSE { <<"D",":","\\","s">> }

\* sets of drive letters that are mounted on Windows
WindowsMounts == {{"A", "C", "D"}, {"C", "D"}, {"A", "D"}}

Trees(system) ==
    IF system = "Linux" THEN {LinuxTree}
    ELSE IF system = "Darwin" THEN {DarwinTree}
    ELSE {{d \in WindowsTree : d.path[1] \in m} : m \in WindowsMounts}

\* directories that may hold files
MarkDirs(system) ==
    IF system = "Linux"
    THEN { <<"/","m","e","d","i","a","/","u","/","v","/","w","/","x">>,
           <<"/","m","e","d","i","a","/","t">>,
           <<"/","m","n","t","/","p">>,
           <<"/","a","/","b">>,
           <<"/","a","/","b","/","c">> }
    ELSE IF system = "Darwin"
    THEN { <<"/","V","o","l","u","m","e","s","/","u">>,
           <<"/","a","/","b">>,
           <<"/","a","/","b","/","c">> }
    ELSE { <<"A",":","\\","u">>,
           <<"C",":","\\","a","\\","b">>,
           <<"C",":","\\","a","\\","b","\\","c">>,
           <<"D",":","\\","t">> }

SETFROMCSV_b5 == <<"_","s","e","t","f","r","o","m","c","s","v","_","b","5","_">>
SETFROMCSV_a0 == <<"_","s","e","t","f","r","o","m","c","s","v","_","a","0","_">>
x_SETFROMCSV_A2_y == <<"x","_","s","e","t","f","r","o","m","c","s","v","_","A","2","_","y">>
\* names that merely contain a marker name
x_SETPATH_y == <<"x","_","s","e","t","p","a","t","h","_","y">>
SETTHISPATH_x == <<"_","s","e","t","t","h","i","s","p","a","t","h","_","x">>
SET_PATH_TXT_BAK == <<"s","e","t","_","p","a","t","h",".","t","x","t",".","b","a","k">>

\* directory listings (file names in listing order) that a marked directory may have
FileLists(script) ==
    IF script = "simple_path_manager"
    THEN { <<MARKER_FILENAME>>, <<SET_PATH_TXT_BAK>> }
    ELSE { <<SETPATH>>, <<SETTHISPATH>>,
           <<SETPATH, SETTHISPATH>>, <<SETTHISPATH, SETPATH>>,
           <<SETFROMCSV_b5>>, <<SETFROMCSV_a0>>, <<x_SETFROMCSV_A2_y>>,
           <<x_SETPATH_y>>, <<SETTHISPATH_x>> }

\* at most MaxMarked directories hold files
MaxMarked == 2

\* base_dirs typed by the operator of simple_path_manager (before expand)
BaseLists(system) ==
    IF system = "Windows"
    THEN { << <<"C",":","\\">> >>, << <<"D",":","\\">>, <<"C",":","\\","a">> >> }
    ELSE IF system = "Darwin"
    THEN { << <<"/">> >>, << <<"/","V","o","l","u","m","e","s","/">>, <<"/","a">> >> }
    ELSE { << <<"/">> >>,
           << <<"/","m","e","d","i","a","/">>, <<"/","m","e","d","i","a","/","u">> >>,
           << <<"/","n","o","n","e">>, <<"/","a">>, <<"/","m","n","t">> >> }
\* depths typed by the operator (0 stands for an empty or invalid entry)
DepthInputs == 0..6

\* ------------------------------------------------------------------------
\* State
\* ------------------------------------------------------------------------
VARIABLES
    system,      \* platform.system()
    script,      \* which program runs
    tree,        \* the directories: [path, subs, files]
    denied,      \* paths of the directories that cannot be listed
    csv_file,    \* content of paths.csv (Absent when the file is missing)
    base_dirs,   \* find_marker_paths: bases typed by the operator
    scan_depth,  \* find_marker_paths: max_depth
    pc,          \* position of the program
    todo,        \* drives (bases) the current for loop has still to take
    system_drive,\* autoPath_v1.0: the system drive still to search (<<>> when none)
    drive,       \* the drive (base) os.walk was started on
    stack,       \* os.walk: directories still to be listed, with their level below drive
    match,       \* (file_path, target_file) returned by search_for_setpath_file
    chosen,      \* value returned by choose_path
    found,       \* find_marker_paths: found list; the returned list when pc = "done"
    listed,      \* history: directories os.walk has listed
    examined,    \* history: directories whose files the loop body looked at, in order
    scans,       \* history: drives (bases) searched, in order
    converted    \* history: matches handed to set_path_based_on_file, in order, each with
                 \* the directory whose listing produced it and the value it became

\* the interactive programs (simple_path_manager, path_setter, subpathsetter,
\* SetPathfromCSV)
VARIABLES
    options,     \* the start folders the menu shows
    path,        \* navigate_folder: path; choose_path: chosen_path
    history,     \* navigate_folder: history
    recent_file, \* content of recent.json: [kind, items]
    raised,      \* the exception that ended the program: [in, exc] (both "" when none)
    first_file,  \* history: recent.json before the first run
    recent0,     \* history: recent.json when the running program started
    mru,         \* history: the distinct folders used so far, last used first
    snaps,       \* history: <<path, history>> before each descent not yet undone
    start_path   \* navigate_folder: start_path (<<>> when it is not running)

nav == <<options, path, history, recent_file, raised, first_file, recent0, mru, snaps,
        start_path>>

vars == <<system, script, tree, denied, csv_file, base_dirs, scan_depth, pc, todo, system_drive,
          drive, stack, match, chosen, found, listed, examined, scans, converted, nav>>

env == <<system, script, tree, denied, csv_file, base_dirs, scan_depth>>

NoFile == [kind |-> "missing", items |-> <<>>]
NoError == [in |-> "", exc |-> ""]

\* the interactive programs are not running
NavIdle ==
    /\ options = <<>>
    /\ path = <<>>
    /\ history = <<>>
    /\ recent_file = NoFile
    /\ raised = NoError
    /\ first_file = NoFile
    /\ recent0 = NoFile
    /\ mru = <<>>
    /\ snaps = <<>>
    /\ start_path = <<>>

HasTableMarker(lists) ==
    \E l \in lists : \E i \in 1..Len(l) : Contains(SETFROMCSV, l[i])

Init ==
    /\ system \in Systems
    /\ script \in Scripts \cup {"simple_path_manager"}
    /\ \E t \in Trees(system), M \in SUBSET MarkDirs(system) :
         /\ Cardinality(M) <= MaxMarked
         /\ \E f \in [M -> FileLists(script)] :
              /\ tree = {[path |-> d.path, subs |-> d.subs,
                          files |-> IF d.path \in M THEN f[d.path] ELSE <<>>] : d \in t}
              /\ csv_file \in (IF HasTableMarker({f[m] : m \in M}) THEN Tables ELSE {Absent})
    /\ IF script = "simple_path_manager"
       THEN base_dirs \in BaseLists(system) /\ scan_depth \in {ScanDepth(d) : d \in DepthInputs}
       ELSE base_dirs = <<>> /\ scan_depth = 0
    /\ denied = Unreadable(system)
    /\ pc = "start"
    /\ todo = <<>>
    /\ system_drive = <<>>
    /\ drive = <<>>
    /\ stack = <<>>
    /\ match = NoMatch
    /\ chosen = None
    /\ found = <<>>
    /\ listed = {}
    /\ examined = <<>>
    /\ scans = <<>>
    /\ converted = <<>>
    /\ NavIdle

\* ------------------------------------------------------------------------
\* os.walk
\* ------------------------------------------------------------------------
Visit(d, e) == [drive |-> d, path |-> e.path, level |-> e.level]

\* the subdirectories os.walk goes into after the loop body left dirs alone
Children(sys, e) ==
    [i \in 1..Len(Entry(tree, e.path).subs) |->
        [path |-> Join(sys, e.path, Entry(tree, e.path).subs[i]), level |-> e.level + 1]]

\* ------------------------------------------------------------------------
\* choose_path of autoPath_v1.0.py, autoPath_v1.py and autoSet_path.py
\* ------------------------------------------------------------------------
\* variant of GetDrives: the drives are taken in enumeration order, the system
\* drive is not set apart
GetDrivesInEnumerationOrder ==
    /\ pc = "start"
    /\ script \in Scripts
    /\ todo' = get_available_drives(script, system, tree)
    /\ system_drive' = <<>>
    /\ pc' = "loop"
    /\ UNCHANGED <<env, nav, drive, stack, match, chosen, found, listed, examined, scans, converted>>

\* drives = get_available_drives(); autoPath_v1.0 sets the system drive apart
GetDrives ==
    /\ pc = "start"
    /\ script \in Scripts
    /\ LET all == get_available_drives(script, system, tree)
           sys == SelectSeq(all, LAMBDA d : is_system_drive(system, d))
       IN  IF script = "autoPath_v1_0"
           THEN /\ todo' = SelectSeq(all, LAMBDA d : ~is_system_drive(system, d))
                /\ system_drive' = IF sys = <<>> THEN <<>> ELSE sys[Len(sys)]
           ELSE /\ todo' = all
                /\ system_drive' = <<>>
    /\ pc' = "loop"
    /\ UNCHANGED <<env, nav, drive, stack, match, chosen, found, listed, examined, scans, converted>>

\* for drive in drives: search_for_setpath_file(drive, target_files) is called
SearchDrive ==
    /\ pc = "loop"
    /\ script \in Scripts
    /\ todo # <<>>
    /\ drive' = Head(todo)
    /\ todo' = Tail(todo)
    /\ stack' = <<[path |-> Head(todo), level |-> 0]>>
    /\ scans' = Append(scans, Head(todo))
    /\ match' = NoMatch
    /\ pc' = "walk"
    /\ UNCHANGED <<env, nav, system_drive, chosen, found, listed, examined, converted>>

\* autoPath_v1.0: if system_drive: search_for_setpath_file(system_drive, target_files)
SearchSystemDrive ==
    /\ pc = "loop"
    /\ script \in Scripts
    /\ todo = <<>>
    /\ system_drive # <<>>
    /\ drive' = system_drive
    /\ system_drive' = <<>>
    /\ stack' = <<[path |-> system_drive, level |-> 0]>>
    /\ scans' = Append(scans, system_drive)
    /\ match' = NoMatch
    /\ pc' = "walk"
    /\ UNCHANGED <<env, nav, todo, chosen, found, listed, examined, converted>>

\* variant of WalkStep: a hit is remembered but the walk goes on
WalkStepKeepsWalking ==
    /\ pc = "walk"
    /\ script \in Scripts
    /\ stack # <<>>
    /\ LET e == Head(stack)
       IN  IF ~Exists(tree, e.path) \/ e.path \in denied
           THEN /\ stack' = Tail(stack)
                /\ UNCHANGED <<listed, examined, match>>
           ELSE /\ listed' = listed \cup {Visit(drive, e)}
                /\ IF Pruned(script, system, drive, e.path)
                   THEN /\ stack' = Tail(stack)
                        /\ UNCHANGED <<examined, match>>
                   ELSE /\ examined' = Append(examined, Visit(drive, e))
                        /\ stack' = Children(system, e) \o Tail(stack)
                        /\ LET m == MatchFiles(script, system, e.path, Entry(tree, e.path).files)
                           IN  match' = IF m.found THEN m ELSE match
    /\ UNCHANGED <<env, nav, todo, system_drive, drive, chosen, found, scans, converted, pc>>

\* one turn of `for root, dirs, files in os.walk(drive)` in search_for_setpath_file
WalkStep ==
    /\ pc = "walk"
    /\ script \in Scripts
    /\ stack # <<>>
    /\ LET e == Head(stack)
       IN  IF ~Exists(tree, e.path) \/ e.path \in denied
           THEN \* os.walk cannot list the directory (scandir raises OSError, which
                \* os.walk swallows): it is not yielded, the walk goes on
                /\ stack' = Tail(stack)
                /\ UNCHANGED <<listed, examined, match, pc>>
           ELSE /\ listed' = listed \cup {Visit(drive, e)}
                /\ IF Pruned(script, system, drive, e.path)
                   THEN /\ stack' = Tail(stack)
                        /\ UNCHANGED <<examined, match, pc>>
                   ELSE /\ examined' = Append(examined, Visit(drive, e))
                        /\ LET m == MatchFiles(script, system, e.path, Entry(tree, e.path).files)
                           IN  IF m.found
                               THEN /\ match' = m
                                    /\ stack' = <<>>
                                    /\ pc' = "found"
                               ELSE /\ stack' = Children(system, e) \o Tail(stack)
                                    /\ UNCHANGED <<match, pc>>
    /\ UNCHANGED <<env, nav, todo, system_drive, drive, chosen, found, scans, converted>>

\* os.walk is exhausted: search_for_setpath_file returns None, None
WalkEnd ==
    /\ pc = "walk"
    /\ script \in Scripts
    /\ stack = <<>>
    /\ pc' = "loop"
    /\ UNCHANGED <<env, nav, todo, system_drive, drive, stack, match, chosen, found, listed,
                   examined, scans, converted>>

\* if file_path: chosen_path = set_path_based_on_file(...); if chosen_path: return chosen_path
Convert ==
    /\ pc = "found"
    /\ LET v == set_path_based_on_file(script, system, drive, match.file_path,
                                       match.target_file, csv_file)
       IN  /\ converted' = Append(converted, [drive |-> drive, root |-> examined[Len(examined)].path,
                                              file_path |-> match.file_path,
                                              target_file |-> match.target_file, value |-> v])
           /\ IF Truthy(v)
              THEN chosen' = v /\ pc' = "done"
              ELSE chosen' = chosen /\ pc' = "loop"
    /\ UNCHANGED <<env, nav, todo, system_drive, drive, stack, match, found, listed, examined, scans>>

\* every loop is over: return None
ReturnNone ==
    /\ pc = "loop"
    /\ script \in Scripts
    /\ todo = <<>>
    /\ system_drive = <<>>
    /\ chosen' = None
    /\ pc' = "done"
    /\ UNCHANGED <<env, nav, todo, system_drive, drive, stack, match, found, listed, examined,
                   scans, converted>>

\* ------------------------------------------------------------------------
\* find_marker_paths(bases, MARKER_FILENAME, depth)
\* ------------------------------------------------------------------------
FmpStart ==
    /\ pc = "start"
    /\ script = "simple_path_manager"
    /\ todo' = base_dirs
    /\ pc' = "loop"
    /\ UNCHANGED <<env, nav, system_drive, drive, stack, match, chosen, found, listed, examined,
                   scans, converted>>

\* for base in base_dirs: base = expand(base); if not os.path.isdir(base): continue
FmpNextBase ==
    /\ pc = "loop"
    /\ script = "simple_path_manager"
    /\ todo # <<>>
    /\ todo' = Tail(todo)
    /\ LET base == expand(system, Head(todo))
       IN  IF ~Exists(tree, base)
           THEN UNCHANGED <<drive, stack, scans, pc>>
           ELSE /\ drive' = base
                /\ stack' = <<[path |-> base, level |-> 0]>>
                /\ scans' = Append(scans, base)
                /\ pc' = "walk"
    /\ UNCHANGED <<env, nav, system_drive, match, chosen, found, listed, examined, converted>>

\* variant of FmpWalkStep: a directory that cannot be listed ends the walk of
\* its base
FmpWalkStepAbortsOnDenied ==
    /\ pc = "walk"
    /\ script = "simple_path_manager"
    /\ stack # <<>>
    /\ LET e == Head(stack)
       IN  IF e.path \in denied
           THEN /\ stack' = <<>>
                /\ UNCHANGED <<listed, examined, found>>
           ELSE /\ listed' = listed \cup {Visit(drive, e)}
                /\ IF rel_depth(system, e.path, drive) > scan_depth
                   THEN /\ stack' = Tail(stack)
                        /\ UNCHANGED <<examined, found>>
                   ELSE /\ examined' = Append(examined, Visit(drive, e))
                        /\ found' = IF MARKER_FILENAME \in Range(Entry(tree, e.path).files)
                                    THEN Append(found, expand(system, e.path))
                                    ELSE found
                        /\ stack' = Children(system, e) \o Tail(stack)
    /\ UNCHANGED <<env, nav, todo, system_drive, drive, match, chosen, scans, converted, pc>>

\* one turn of `for root, dirs, files in os.walk(base)` in find_marker_paths
FmpWalkStep ==
    /\ pc = "walk"
    /\ script = "simple_path_manager"
    /\ stack # <<>>
    /\ LET e == Head(stack)
       IN  IF e.path \in denied
           THEN \* scandir raises PermissionError inside os.walk, which swallows it:
                \* the directory is not yielded and the walk goes on
                /\ stack' = Tail(stack)
                /\ UNCHANGED <<listed, examined, found>>
           ELSE /\ listed' = listed \cup {Visit(drive, e)}
                /\ IF rel_depth(system, e.path, drive) > scan_depth
                   THEN /\ stack' = Tail(stack)
                        /\ UNCHANGED <<examined, found>>
                   ELSE /\ examined' = Append(examined, Visit(drive, e))
                        /\ found' = IF MARKER_FILENAME \in Range(Entry(tree, e.path).files)
                                    THEN Append(found, expand(system, e.path))
                                    ELSE found
                        /\ stack' = Children(system, e) \o Tail(stack)
    /\ UNCHANGED <<env, nav, todo, system_drive, drive, match, chosen, scans, converted, pc>>

FmpWalkEnd ==
    /\ pc = "walk"
    /\ script = "simple_path_manager"
    /\ stack = <<>>
    /\ pc' = "loop"
    /\ UNCHANGED <<env, nav, todo, system_drive, drive, stack, match, chosen, found, listed,
                   examined, scans, converted>>

\* uniq = sorted(list(dict.fromkeys(found))); return uniq
FmpReturn ==
    /\ pc = "loop"
    /\ script = "simple_path_manager"
    /\ todo = <<>>
    /\ found' = uniq(found)
    /\ pc' = "done"
    /\ UNCHANGED <<env, nav, todo, system_drive, drive, stack, match, chosen, listed, examined,
                   scans, converted>>

Next ==
    \/ GetDrives
    \/ SearchDrive
    \/ SearchSystemDrive
    \/ WalkStep
    \/ WalkEnd
    \/ Convert
    \/ ReturnNone
    \/ FmpStart
    \/ FmpNextBase
    \/ FmpWalkStep
    \/ FmpWalkEnd
    \/ FmpReturn

Spec == Init /\ [][Next]_vars

\* ------------------------------------------------------------------------
\* The interactive programs: simple_path_manager.py, path_setter.py,
\* subpathsetter.py, SetPathfromCSV.py
\* ------------------------------------------------------------------------
NavScripts == {"simple_path_manager", "path_setter", "subpathsetter", "SetPathfromCSV"}

\* folders the programs run on
NavLinuxTree ==
    {
      [path |-> <<"/">>,
       subs |-> <<<<"m","e","d","i","a">>, <<"m","n","t">>, <<"a">>>>, files |-> <<>>],
      [path |-> <<"/","m","e","d","i","a">>,
       subs |-> <<<<"u">>, <<"s">>>>, files |-> <<>>],
      [path |-> <<"/","m","e","d","i","a","/","u">>,
       subs |-> <<>>, files |-> <<>>],
      [path |-> <<"/","m","e","d","i","a","/","s">>,
       subs |-> <<>>, files |-> <<>>],
      [path |-> <<"/","m","n","t">>,
       subs |-> <<<<"p">>>>, files |-> <<>>],
      [path |-> <<"/","m","n","t","/","p">>,
       subs |-> <<>>, files |-> <<>>],
      [path |-> <<"/","a">>,
       subs |-> <<<<"b">>>>, files |-> <<>>],
      [path |-> <<"/","a","/","b">>,
       subs |-> <<<<"c">>>>, files |-> <<>>],
      [path |-> <<"/","a","/","b","/","c">>,
       subs |-> <<>>, files |-> <<>>]
    }
NavDarwinTree ==
    {
      [path |-> <<"/">>,
       subs |-> <<<<"V","o","l","u","m","e","s">>, <<"a">>>>, files |-> <<>>],
      [path |-> <<"/","V","o","l","u","m","e","s">>,
       subs |-> <<<<"u">>>>, files |-> <<>>],
      [path |-> <<"/","V","o","l","u","m","e","s","/","u">>,
       subs |-> <<<<"v">>>>, files |-> <<>>],
      [path |-> <<"/","V","o","l","u","m","e","s","/","u","/","v">>,
       subs |-> <<>>, files |-> <<>>],
      [path |-> <<"/","a">>,
       subs |-> <<>>, files |-> <<>>]
    }
NavWindowsTree ==
    {
      [path |-> <<"A",":","\\">>,
       subs |-> <<>>, files |-> <<>>],
      [path |-> <<"C",":","\\">>,
       subs |-> <<<<"a">>>>, files |-> <<>>],
      [path |-> <<"C",":","\\","a">>,
       subs |-> <<>>, files |-> <<>>],
      [path |-> <<"D",":","\\">>,
       subs |-> <<<<"u">>>>, files |-> <<>>],
      [path |-> <<"D",":","\\","u">>,
       subs |-> <<>>, files |-> <<>>]
    }
NavTree(sys) ==
    IF sys = "Linux" THEN NavLinuxTree
    ELSE IF sys = "Darwin" THEN NavDarwinTree
    ELSE NavWindowsTree

\* sets of directories that cannot be listed
NavDenied(sys) ==
    IF sys = "Linux" THEN { {}, {<<"/","m","e","d","i","a">>} }
    ELSE IF sys = "Darwin" THEN { {}, {<<"/","V","o","l","u","m","e","s">>}, {<<"/","V","o","l","u","m","e","s","/","u">>} }
    ELSE { {}, {<<"D",":","\\">>} }

\* Path.home(), os.path.expanduser("~")
Home(sys) == IF sys = "Windows" THEN <<"C",":","\\","a">> ELSE <<"/","a">>

\* recent.json as the first run may find it: missing, not parsable, a JSON value
\* that is no list, a list with an entry whose directory is gone
GONE == <<"/","g","o","n","e">>
RecentFiles(sys) ==
    IF sys = "Linux" THEN { NoFile }
    ELSE { NoFile,
           [kind |-> "unreadable", items |-> <<>>],
           [kind |-> "notlist", items |-> <<>>],
           [kind |-> "list", items |-> IF sys = "Windows" THEN << <<"D",":","\\","u">>, GONE, Home(sys) >>
                                       ELSE << Home(sys), GONE, <<"/","V","o","l","u","m","e","s","/","u">> >>] }

\* paths.csv of SetPathfromCSV: one row per folder, columns Windows, Linux, macOS
NavCsvRows ==
    << << <<"C",":","\\">>, <<"/","a">>, <<"/","V","o","l","u","m","e","s">> >>,
       << <<"D",":","\\","u">>, <<"/","m","n","t","/","p">>, <<"/","a">> >> >>

\* what the operator types at a prompt
SUP2 == "sup2"   \* the character SUPERSCRIPT TWO: str.isdigit() holds, int() fails
NavInputs ==
    { <<"q">>, <<"Q">>, <<"b">>, <<"0">>, <<"1">>, <<"2">>, <<"3">>, <<"4">>,
      <<" ", "2">>, <<"x">>, <<>>, <<SUP2>> }

\* s.strip() for blanks
RECURSIVE Strip(_)
Strip(s) ==
    IF Len(s) > 0 /\ s[1] = " " THEN Strip(Tail(s))
    ELSE IF Len(s) > 0 /\ s[Len(s)] = " " THEN Strip(SubSeq(s, 1, Len(s) - 1))
    ELSE s

\* s.isdigit()
isdigit(s) == Len(s) > 0 /\ \A i \in 1..Len(s) : IsDigit(s[i]) \/ s[i] = SUP2

\* int(s) of a typed line succeeds (blanks around the digits are accepted)
IntInputOk(s) == IntOk(Strip(s))
IntInput(s) == IntOf(Strip(s))

RECURSIVE Flatten(_)
Flatten(seqs) == IF seqs = <<>> THEN <<>> ELSE Head(seqs) \o Flatten(Tail(seqs))

\* os.listdir(p) filtered with os.path.isdir: the names, or the exception
listdir(t, d, p) ==
    IF ~Exists(t, p) THEN [exc |-> "FileNotFoundError", names |-> <<>>]
    ELSE IF p \in d THEN [exc |-> "PermissionError", names |-> <<>>]
    ELSE [exc |-> "", names |-> Entry(t, p).subs]

\* drive roots letter k .. Z that pass the probe
DriveRoots(t, k) ==
    SelectSeq([i \in 1..(27 - k) |-> <<UPPER[i + k - 1], ":", "\\">>], LAMBDA x : Exists(t, x))

\* the entries of mount point r as paths
MountEntries(sys, t, r) ==
    [i \in 1..Len(Entry(t, r).subs) |-> Join(sys, r, Entry(t, r).subs[i])]

\* get_external_drives(): the drives, or the exception that escapes
get_external_drives(scr, sys, t, d) ==
    IF sys = "Windows"
    THEN [exc |-> "", drives |-> DriveRoots(t, IF scr = "simple_path_manager" THEN 3 ELSE 1)]
    ELSE LET roots == IF scr = "simple_path_manager"
                      THEN << <<"/","m","e","d","i","a">>, <<"/","m","n","t">>, <<"/","V","o","l","u","m","e","s">> >>
                      ELSE IF sys = "Linux" THEN << <<"/","m","e","d","i","a">>, <<"/","m","n","t">> >>
                      ELSE << <<"/","V","o","l","u","m","e","s">> >>
             present == SelectSeq(roots, LAMBDA r : Exists(t, r))
         IN  IF scr = "simple_path_manager"
             THEN \* except PermissionError: continue
                  [exc |-> "",
                   drives |-> Flatten([i \in 1..Len(present) |->
                                 IF present[i] \in d THEN <<>>
                                 ELSE SelectSeq(MountEntries(sys, t, present[i]),
                                                LAMBDA c : Exists(t, c))])]
             ELSE IF \E i \in 1..Len(present) : present[i] \in d
                  THEN [exc |-> "PermissionError", drives |-> <<>>]
                  ELSE [exc |-> "", drives |-> Flatten([i \in 1..Len(present) |->
                                                           MountEntries(sys, t, present[i])])]

\* default_scan_locations(): ~/Desktop, ~/Documents, ~/Downloads if they exist, then ~
DEFAULT_SCAN_DIRS == << <<"D","e","s","k","t","o","p">>, <<"D","o","c","u","m","e","n","t","s">>, <<"D","o","w","n","l","o","a","d","s">> >>
default_scan_locations(sys, t) ==
    SelectSeq([i \in 1..Len(DEFAULT_SCAN_DIRS) |-> Join(sys, Home(sys), DEFAULT_SCAN_DIRS[i])],
              LAMBDA p : Exists(t, p)) \o <<Home(sys)>>

\* get_internal_paths() of path_setter and subpathsetter
get_internal_paths(sys) == << Home(sys), <<"/","p","a","t","h","/","t","o","/","p","r","o","j","e","c","t">>, <<"/","p","a","t","h","/","t","o","/","d","o","c","u","m","e","n","t","s">> >>

\* read_paths_from_csv(csv_file) of SetPathfromCSV: the column of the running OS
read_paths_from_csv(sys, rows) ==
    [i \in 1..Len(rows) |->
        rows[i][IF sys = "Windows" THEN 1 ELSE IF sys = "Linux" THEN 2 ELSE 3]]

\* variant of load_recent: the entries are not tested with os.path.isdir
load_recentKeepsStale(file, sys, t) ==
    IF file.kind = "list"
    THEN [i \in 1..Len(file.items) |-> expand(sys, file.items[i])]
    ELSE <<>>

\* load_recent(): the entries of a list that are directories, expanded
load_recent(file, sys, t) ==
    IF file.kind = "list"
    THEN SelectSeq([i \in 1..Len(file.items) |-> expand(sys, file.items[i])],
                   LAMBDA p : Exists(t, p))
    ELSE <<>>

max_items == 5

\* variant of save_recent: the path is put in front of the entries as they are
save_recentKeepsDuplicate(p, file, sys, t) ==
    LET new == <<expand(sys, p)>> \o load_recent(file, sys, t)
    IN  [kind |-> "list",
         items |-> SubSeq(new, 1, IF Len(new) < max_items THEN Len(new) ELSE max_items)]

\* save_recent(path): the content recent.json is rewritten with
save_recent(p, file, sys, t) ==
    LET new == <<expand(sys, p)>> \o SelectSeq(load_recent(file, sys, t),
                                              LAMBDA q : q # expand(sys, p))
    IN  [kind |-> "list",
         items |-> SubSeq(new, 1, IF Len(new) < max_items THEN Len(new) ELSE max_items)]

\* the variables of the drive and marker scans
scanv == <<todo, system_drive, drive, stack, match, found, listed, examined, scans, converted>>

InitNav ==
    /\ system \in Systems
    /\ script \in NavScripts
    /\ tree = NavTree(system)
    /\ denied \in NavDenied(system)
    /\ csv_file \in (IF script = "SetPathfromCSV" THEN {Absent, NavCsvRows} ELSE {Absent})
    /\ base_dirs = <<>>
    /\ scan_depth = 0
    /\ pc = "main"
    /\ todo = <<>>
    /\ system_drive = <<>>
    /\ drive = <<>>
    /\ stack = <<>>
    /\ match = NoMatch
    /\ chosen = None
    /\ found = <<>>
    /\ listed = {}
    /\ examined = <<>>
    /\ scans = <<>>
    /\ converted = <<>>
    /\ options = <<>>
    /\ path = <<>>
    /\ history = <<>>
    /\ recent_file \in (IF script = "simple_path_manager" THEN RecentFiles(system) ELSE {NoFile})
    /\ first_file = recent_file
    /\ recent0 = recent_file
    /\ raised = NoError
    /\ mru = <<>>
    /\ snaps = <<>>
    /\ start_path = <<>>

\* the running function returns v to the top level; its locals are gone
Return(p, v) ==
    /\ pc' = p
    /\ chosen' = v
    /\ options' = <<>>
    /\ path' = <<>>
    /\ history' = <<>>
    /\ snaps' = <<>>
    /\ start_path' = <<>>

\* an exception leaves function fn and ends the program
Raise(fn, exc) ==
    /\ Return("raised", None)
    /\ raised' = [in |-> fn, exc |-> exc]

\* main_menu, choice '3': drives = get_external_drives(); common = default_scan_locations()
MenuDrives ==
    /\ pc = "main"
    /\ script = "simple_path_manager"
    /\ LET drives == get_external_drives(script, system, tree, denied).drives
           common == default_scan_locations(system, tree)
       IN  /\ options' = drives \o SelectSeq(common, LAMBDA p : p \notin Range(drives))
           /\ pc' = IF options' = <<>> THEN "main" ELSE "drives"
    /\ UNCHANGED <<env, scanv, chosen, path, history, snaps, start_path, raised, recent_file, first_file,
                   recent0, mru>>

\* variant of MenuRecent: showing the recent list rewrites recent.json with the
\* entries that were loaded
MenuRecentRewritesFile ==
    /\ pc = "main"
    /\ script = "simple_path_manager"
    /\ options' = load_recent(recent_file, system, tree)
    /\ recent_file' = [kind |-> "list", items |-> options']
    /\ pc' = IF options' = <<>> THEN "main" ELSE "recents"
    /\ UNCHANGED <<env, scanv, chosen, path, history, snaps, start_path, raised, first_file, recent0, mru>>

\* main_menu, choice '5': recents = load_recent()
MenuRecent ==
    /\ pc = "main"
    /\ script = "simple_path_manager"
    /\ options' = load_recent(recent_file, system, tree)
    /\ pc' = IF options' = <<>> THEN "main" ELSE "recents"
    /\ UNCHANGED <<env, scanv, chosen, path, history, snaps, start_path, raised, recent_file, first_file,
                   recent0, mru>>

\* main_menu: ch = present_menu(..., options, allow_back=True) and what follows
MenuPick(ch) ==
    /\ pc \in {"drives", "recents"}
    /\ script = "simple_path_manager"
    /\ LET c == StrLower(Strip(ch))
       IN  IF c \in {<<"b">>, <<"q">>}
           THEN /\ pc' = "main"
                /\ options' = <<>>
                /\ UNCHANGED <<path, history, snaps, start_path, raised, chosen>>
           ELSE IF isdigit(c) /\ ~IntOk(c)
           THEN Raise("main_menu", "ValueError")
           ELSE IF isdigit(c) /\ 1 <= IntOf(c) /\ IntOf(c) <= Len(options)
           THEN \* chosen = navigate_folder(options[int(ch)-1]): path = expand(start_path)
                /\ path' = expand(system, options[IntOf(c)])
                /\ history' = <<>>
                /\ pc' = "browse"
                /\ options' = <<>>
                /\ start_path' = options[IntOf(c)]
                /\ UNCHANGED <<snaps, raised, chosen>>
           ELSE \* "Invalid selection."
                /\ pc' = "main"
                /\ options' = <<>>
                /\ UNCHANGED <<path, history, snaps, start_path, raised, chosen>>
    /\ UNCHANGED <<env, scanv, recent_file, first_file, recent0, mru>>

\* variant of navigate_folder: 'b' takes the top of the history and leaves it there
navigate_folderBackKeepsHistory(ch) ==
    /\ pc = "browse"
    /\ script = "simple_path_manager"
    /\ LET subs == listdir(tree, denied, path).names
           choice == StrLower(Strip(ch))
       IN  IF choice = <<"q">>
           THEN /\ Return("cancelled", None)
                /\ UNCHANGED <<raised, recent_file, mru>>
           ELSE IF choice = <<"b">> /\ history # <<>>
           THEN /\ path' = history[Len(history)]
                /\ snaps' = SubSeq(snaps, 1, Len(snaps) - 1)
                /\ UNCHANGED <<pc, chosen, options, history, raised, recent_file, mru, start_path>>
           ELSE IF isdigit(choice) /\ ~IntOk(choice)
           THEN /\ Raise("navigate_folder", "ValueError")
                /\ UNCHANGED <<recent_file, mru>>
           ELSE IF isdigit(choice) /\ IntOf(choice) = 1
           THEN /\ recent_file' = save_recent(path, recent_file, system, tree)
                /\ mru' = <<path>> \o SelectSeq(mru, LAMBDA q : q # path)
                /\ Return("used", Str(path))
                /\ UNCHANGED raised
           ELSE IF isdigit(choice) /\ 0 <= IntOf(choice) - 2 /\ IntOf(choice) - 2 < Len(subs)
           THEN /\ history' = Append(history, path)
                /\ path' = Join(system, path, subs[IntOf(choice) - 1])
                /\ snaps' = Append(snaps, <<path, history>>)
                /\ UNCHANGED <<pc, chosen, options, raised, recent_file, mru, start_path>>
           ELSE UNCHANGED <<pc, chosen, options, path, history, snaps, start_path, raised, recent_file, mru>>
    /\ UNCHANGED <<env, scanv, first_file, recent0>>

\* one turn of the while loop of navigate_folder with the operator's input ch
navigate_folder(ch) ==
    /\ pc = "browse"
    /\ script = "simple_path_manager"
    /\ LET subs == listdir(tree, denied, path).names     \* except Exception: subs = []
           choice == StrLower(Strip(ch))
       IN  IF choice = <<"q">>
           THEN \* return None
                /\ Return("cancelled", None)
                /\ UNCHANGED <<raised, recent_file, mru>>
           ELSE IF choice = <<"b">> /\ history # <<>>
           THEN \* path = history.pop()
                /\ path' = history[Len(history)]
                /\ history' = SubSeq(history, 1, Len(history) - 1)
                /\ snaps' = SubSeq(snaps, 1, Len(snaps) - 1)
                /\ UNCHANGED <<pc, chosen, options, raised, recent_file, mru, start_path>>
           ELSE IF isdigit(choice) /\ ~IntOk(choice)
           THEN \* idx = int(choice) raises ValueError
                /\ Raise("navigate_folder", "ValueError")
                /\ UNCHANGED <<recent_file, mru>>
           ELSE IF isdigit(choice) /\ IntOf(choice) = 1
           THEN \* save_recent(path); return path
                /\ recent_file' = save_recent(path, recent_file, system, tree)
                /\ mru' = <<path>> \o SelectSeq(mru, LAMBDA q : q # path)
                /\ Return("used", Str(path))
                /\ UNCHANGED raised
           ELSE IF isdigit(choice) /\ 0 <= IntOf(choice) - 2 /\ IntOf(choice) - 2 < Len(subs)
           THEN \* history.append(path); path = os.path.join(path, subs[sel_index])
                /\ history' = Append(history, path)
                /\ path' = Join(system, path, subs[IntOf(choice) - 1])
                /\ snaps' = Append(snaps, <<path, history>>)
                /\ UNCHANGED <<pc, chosen, options, raised, recent_file, mru, start_path>>
           ELSE \* "Invalid choice. Try again."
                UNCHANGED <<pc, chosen, options, path, history, snaps, start_path, raised, recent_file, mru>>
    /\ UNCHANGED <<env, scanv, first_file, recent0>>

\* choose_path of path_setter and subpathsetter:
\* options = get_external_drives() + get_internal_paths()
EnumerateDrives ==
    /\ pc = "main"
    /\ script \in {"path_setter", "subpathsetter"}
    /\ LET r == get_external_drives(script, system, tree, denied)
       IN  IF r.exc # ""
           THEN Raise("get_external_drives", r.exc)
           ELSE /\ options' = r.drives \o get_internal_paths(system)
                /\ pc' = "bases"
                /\ UNCHANGED <<chosen, path, history, snaps, start_path, raised>>
    /\ UNCHANGED <<env, scanv, recent_file, first_file, recent0, mru>>

\* choose_path_from_csv of SetPathfromCSV: paths = read_paths_from_csv(csv_file)
ReadCsvPaths ==
    /\ pc = "main"
    /\ script = "SetPathfromCSV"
    /\ IF csv_file = Absent
       THEN \* FileNotFoundError: [] ; "No paths available": return None
            /\ Return("done", None)
            /\ UNCHANGED raised
       ELSE /\ options' = read_paths_from_csv(system, csv_file)
            /\ pc' = "bases"
            /\ UNCHANGED <<chosen, path, history, snaps, start_path, raised>>
    /\ UNCHANGED <<env, scanv, recent_file, first_file, recent0, mru>>

\* choice = int(input(...)) - 1 over the base paths
PickBase(ch) ==
    /\ pc = "bases"
    /\ script \in {"path_setter", "subpathsetter", "SetPathfromCSV"}
    /\ IF ~IntInputOk(ch)
       THEN Raise(IF script = "SetPathfromCSV" THEN "choose_path_from_csv" ELSE "choose_path",
                  "ValueError")
       ELSE IF 0 <= IntInput(ch) - 1 /\ IntInput(ch) - 1 < Len(options)
       THEN IF script = "path_setter"
            THEN \* return options[choice]
                 /\ Return("done", Str(options[IntInput(ch)]))
                 /\ UNCHANGED raised
            ELSE \* chosen_path = options[choice]
                 /\ path' = options[IntInput(ch)]
                 /\ options' = <<>>
                 /\ pc' = "browse"
                 /\ UNCHANGED <<chosen, history, snaps, start_path, raised>>
       ELSE \* "Invalid choice": return None
            /\ Return("done", None)
            /\ UNCHANGED raised
    /\ UNCHANGED <<env, scanv, recent_file, first_file, recent0, mru>>

\* one turn of the subfolder loop of subpathsetter and SetPathfromCSV with the
\* operator's input ch (not read when there is no subfolder)
choose_subfolder(ch) ==
    /\ pc = "browse"
    /\ script \in {"subpathsetter", "SetPathfromCSV"}
    /\ LET subfolders == listdir(tree, denied, path).names    \* list_subfolders: [] on error
       IN  IF subfolders = <<>>
           THEN \* break; return chosen_path
                /\ Return("used", Str(path))
                /\ UNCHANGED raised
           ELSE IF ~IntInputOk(ch)
           THEN Raise(IF script = "SetPathfromCSV" THEN "choose_path_from_csv"
                      ELSE "choose_path", "ValueError")
           ELSE IF IntInput(ch) - 1 = -1
           THEN \* break; return chosen_path
                /\ Return("used", Str(path))
                /\ UNCHANGED raised
           ELSE IF 0 <= IntInput(ch) - 1 /\ IntInput(ch) - 1 < Len(subfolders)
           THEN /\ path' = Join(system, path, subfolders[IntInput(ch)])
                /\ UNCHANGED <<pc, chosen, options, history, snaps, start_path, raised>>
           ELSE \* "Invalid choice"
                UNCHANGED <<pc, chosen, options, path, history, snaps, start_path, raised>>
    /\ UNCHANGED <<env, scanv, recent_file, first_file, recent0, mru>>

\* the program has ended and is started again; recent.json stays as it is
Restart ==
    /\ pc \in {"used", "cancelled", "done", "raised"}
    /\ pc' = "main"
    /\ raised' = NoError
    /\ chosen' = None
    /\ recent0' = recent_file
    /\ UNCHANGED <<env, scanv, options, path, history, snaps, start_path, recent_file, first_file, mru>>

NextNav ==
    \/ MenuDrives
    \/ MenuRecent
    \/ \E ch \in NavInputs : MenuPick(ch)
    \/ \E ch \in NavInputs : navigate_folder(ch)
    \/ EnumerateDrives
    \/ ReadCsvPaths
    \/ \E ch \in NavInputs : PickBase(ch)
    \/ \E ch \in NavInputs : choose_subfolder(ch)
    \/ Restart

SpecNav == InitNav /\ [][NextNav]_vars

\* ------------------------------------------------------------------------
\* Vocabulary of the properties
\* ------------------------------------------------------------------------
Last(seq) == seq[Len(seq)]

\* the directories of the tree exactly n levels below root
RECURSIVE LevelSet(_, _)
LevelSet(root, n) ==
    IF n = 0 THEN {d.path : d \in {x \in tree : x.path = root}}
    ELSE UNION {{Join(system, p, Entry(tree, p).subs[i]) : i \in 1..Len(Entry(tree, p).subs)} :
                  p \in LevelSet(root, n - 1)}

\* p lies in the volume rooted at root (at any level, the root included)
InVolume(root, p) == \E n \in 0..Cardinality(tree) : p \in LevelSet(root, n)

AllDrives == get_available_drives(script, system, tree)
PrimaryDrives == {d \in Range(AllDrives) : is_system_drive(system, d)}
OtherDrives == {d \in Range(AllDrives) : ~is_system_drive(system, d)}

\* the directories that hold at least one file
Marked == {d.path : d \in {x \in tree : x.files # <<>>}}

\* the depth bound of the running marker scan
DepthBound == IF script = "autoSet_path" THEN max_depth ELSE scan_depth

\* C1: the marker scan (find_marker_paths, search_for_setpath_file of autoSet_path)
\* never lists or examines a directory that lies more than the depth bound below
\* the scan root.
C1_NeverVisitsBeyondBound ==
    script \in {"autoSet_path", "simple_path_manager"} =>
        /\ \A v \in listed : v.level <= DepthBound
        /\ \A i \in 1..Len(examined) : examined[i].level <= DepthBound

\* C2: autoPath_v1.0, the only marker lies 3 levels below the root of the system
\* drive and in no other drive: no match is ever found and no path is returned.
C2_Fixture ==
    /\ script = "autoPath_v1_0"
    /\ \E prim \in PrimaryDrives, m \in Marked :
         /\ Marked = {m}
         /\ m \in LevelSet(prim, 3)
         /\ \A o \in OtherDrives : ~InVolume(o, m)

C2_DepthThreeMarkerNotFound ==
    C2_Fixture => /\ ~match.found
                  /\ converted = <<>>
                  /\ chosen = None

\* the system drive was searched down to the marker's directory, which was listed
\* but not examined, and choose_path has returned
C2_Witness ==
    /\ C2_Fixture
    /\ pc = "done"
    /\ \E v \in listed : v.path \in Marked /\ is_system_drive(system, v.drive) /\ v.level = 3

MatchedName(c) ==
    CHOOSE f \in Range(Entry(tree, c.root).files) : Join(system, c.root, f) = c.file_path

\* C4: a directory that holds both _setpath_ and _setthispath_ is reported as a
\* _setpath_ match and resolves to the drive, in either listing order.
C4_SetpathTakesPrecedence ==
    script \in {"autoPath_v1_0", "autoPath_v1"} =>
        \A k \in 1..Len(converted) :
            {SETPATH, SETTHISPATH} \subseteq Range(Entry(tree, converted[k].root).files) =>
                /\ converted[k].target_file = SETPATH
                /\ converted[k].value = Str(converted[k].drive)

\* the table address a file name carries: _setfromcsv_<letter><digits>_
RefOffset(f) == Find(f, SETFROMCSV) + Len(SETFROMCSV)
HasTableRef(f) ==
    /\ Contains(SETFROMCSV, f)
    /\ Len(f) >= RefOffset(f) + 3
    /\ IsLetter(f[RefOffset(f) + 1])
    /\ DigitRun(SliceFrom(f, RefOffset(f) + 1)) >= 1
    /\ f[RefOffset(f) + 2 + DigitRun(SliceFrom(f, RefOffset(f) + 1))] = "_"
AddressColumn(f) == IndexIn(LowerChar(f[RefOffset(f) + 1]), LOWER) - 1
AddressRow(f) ==
    IntOf(SubSeq(f, RefOffset(f) + 2, RefOffset(f) + 1 + DigitRun(SliceFrom(f, RefOffset(f) + 1)))) - 1
InTable(table, r, c) ==
    /\ table # Absent
    /\ 0 <= r /\ r < rowCount(table)
    /\ 0 <= c /\ c < columnCount(table)

\* C5: autoPath_v1.0 / v1 resolve a file whose name contains
\* _setfromcsv_<letter><digits>_ to the cell at column = index of the letter
\* (A = 0, either case) and row = digits - 1, whenever the table has that cell;
\* _setfromcsv_b5_ resolves to /data/archive when that is cell (4, 1).
C5_TableRefResolvesToCell ==
    script \in {"autoPath_v1_0", "autoPath_v1"} =>
        \A k \in 1..Len(converted) :
            LET c == converted[k]
                f == MatchedName(c)
            IN  /\ (HasTableRef(f) /\ InTable(csv_file, AddressRow(f), AddressColumn(f))) =>
                      /\ c.value = Str(cellAt(csv_file, AddressRow(f), AddressColumn(f)))
                      /\ (k = Len(converted) /\ pc = "done") => chosen = c.value
                /\ (f = SETFROMCSV_b5 /\ InTable(csv_file, 4, 1)
                      /\ cellAt(csv_file, 4, 1) = DATA_ARCHIVE) => c.value = Str(DATA_ARCHIVE)

\* choose_path of autoPath_v1.0 has returned /data/archive for _setfromcsv_b5_
C5_Witness ==
    /\ script = "autoPath_v1_0"
    /\ pc = "done"
    /\ converted # <<>>
    /\ MatchedName(Last(converted)) = SETFROMCSV_b5
    /\ chosen = Str(DATA_ARCHIVE)

\* C6: autoSet_path, the scan has found a file named _setfromcsv_b5_ and the
\* table has cell B5: choose_path returns the value of cell B5.
C6_AutoSetReadsB5 ==
    (/\ script = "autoSet_path"
     /\ pc = "done"
     /\ converted # <<>>
     /\ MatchedName(converted[1]) = SETFROMCSV_b5
     /\ InTable(csv_file, 4, 1)) => chosen = Str(cellAt(csv_file, 4, 1))

\* C7: a _setpath_ match becomes the root path of the drive that was being
\* searched, a _setthispath_ match becomes the directory that holds the matched
\* file; choose_path returns that value.
C7_MarkerConversion ==
    script \in Scripts =>
        \A k \in 1..Len(converted) :
            LET c == converted[k]
            IN  /\ c.drive \in Range(scans)
                /\ InVolume(c.drive, c.root)
                /\ \E i \in 1..Len(Entry(tree, c.root).files) :
                      Join(system, c.root, Entry(tree, c.root).files[i]) = c.file_path
                /\ c.target_file = SETPATH => c.value = Str(c.drive)
                /\ c.target_file = SETTHISPATH => c.value = Str(c.root)
                /\ (c.target_file \in {SETPATH, SETTHISPATH} /\ k = Len(converted) /\ pc = "done")
                      => chosen = c.value

\* a _setthispath_ file below the drive root was found and its directory returned
C7_Witness ==
    /\ script = "autoPath_v1_0"
    /\ pc = "done"
    /\ converted # <<>>
    /\ Last(converted).target_file = SETTHISPATH
    /\ Last(converted).root # Last(converted).drive
    /\ chosen = Str(Last(converted).root)

\* a file name that search_for_setpath_file of autoPath_v1.0 / v1 takes for a marker
IsMarkerName(f) == Contains(SETPATH, f) \/ Contains(SETTHISPATH, f) \/ HasTableRef(f)
HoldsMarker(p) == \E i \in 1..Len(Entry(tree, p).files) : IsMarkerName(Entry(tree, p).files[i])

\* C8: search_for_setpath_file stops at the first directory, in the order it
\* examines directories, that holds a matching file name: the match lies in the
\* directory examined last, no directory examined before it in this search holds
\* a marker, and nothing is left to walk.
C8_StopsAtFirstMatchingDirectory ==
    (script \in {"autoPath_v1_0", "autoPath_v1"} /\ match.found) =>
        /\ examined # <<>>
        /\ Last(examined).drive = drive
        /\ \E i \in 1..Len(Entry(tree, Last(examined).path).files) :
              /\ IsMarkerName(Entry(tree, Last(examined).path).files[i])
              /\ Join(system, Last(examined).path, Entry(tree, Last(examined).path).files[i])
                   = match.file_path
        /\ \A j \in 1..(Len(examined) - 1) :
              examined[j].drive = drive => ~HoldsMarker(examined[j].path)
        /\ stack = <<>>

\* a search returned its match although a second directory of the same drive,
\* reached later, holds a marker too and was never examined
C8_Witness ==
    /\ script = "autoPath_v1_0"
    /\ match.found
    /\ pc = "found"
    /\ Len(examined) >= 3
    /\ \E m \in Marked :
         /\ InVolume(drive, m)
         /\ HoldsMarker(m)
         /\ \A j \in 1..Len(examined) : examined[j].path # m

\* C9: once a search has returned a match, no further drive is searched: at most
\* one match is ever converted, and it belongs to the drive searched last.
C9_NoSearchAfterFirstMatch ==
    script \in {"autoPath_v1_0", "autoPath_v1"} =>
        /\ Len(converted) <= 1
        /\ converted # <<>> => Last(scans) = converted[1].drive

\* C10: the first match is a table reference and its lookup fails (no table or
\* address out of range): choose_path returns no path.
C10_FailedLookupFailsResolution ==
    (/\ script = "autoPath_v1_0"
     /\ pc = "done"
     /\ converted # <<>>
     /\ HasTableRef(MatchedName(converted[1]))
     /\ converted[1].value = None) => chosen = None

\* C11: every path choose_path returns is an existing directory: a converted value
\* that is not one (an arbitrary table cell, an empty one) is never returned.
C11_ReturnedPathIsExistingDirectory ==
    (script \in Scripts /\ pc = "done" /\ chosen # None) =>
        /\ chosen.t = "str"
        /\ Exists(tree, chosen.s)

\* C12: read_path_from_csv returns no value when the table is absent or the row or
\* the column index of the address lies beyond the table, and otherwise returns the
\* cell at exactly that row and column.
C12_LookupFailsExactlyOutOfBounds ==
    script \in {"autoPath_v1_0", "autoPath_v1"} =>
        \A k \in 1..Len(converted) :
            LET c == converted[k]
                f == MatchedName(c)
            IN  HasTableRef(f) =>
                    IF \/ csv_file = Absent
                       \/ AddressRow(f) >= rowCount(csv_file)
                       \/ AddressColumn(f) >= columnCount(csv_file)
                    THEN c.value = None
                    ELSE /\ AddressRow(f) >= 0
                         /\ c.value = Str(cellAt(csv_file, AddressRow(f), AddressColumn(f)))

\* the running scan does not go into p (the depth test of its loop body)
BeyondBound(root, p) ==
    IF script = "simple_path_manager"
    THEN rel_depth(system, p, root) > scan_depth
    ELSE Pruned(script, system, root, p)

\* the directories n levels below root that can be listed, lie within the depth
\* bound, and are reached from root through such directories only
RECURSIVE Readable(_, _)
Readable(root, n) ==
    IF n = 0
    THEN {d.path : d \in {x \in tree : x.path = root /\ x.path \notin denied
                                        /\ ~BeyondBound(root, x.path)}}
    ELSE {q \in UNION {{Join(system, p, Entry(tree, p).subs[i]) : i \in 1..Len(Entry(tree, p).subs)} :
                         p \in Readable(root, n - 1)} :
            q \notin denied /\ ~BeyondBound(root, q)}

\* os.walk of the current drive (base) is exhausted
WalkExhausted == pc = "walk" /\ stack = <<>>

\* C13: a directory that cannot be listed does not end the scan: when the walk of a
\* drive or base is exhausted, every listable directory within the depth bound has
\* been examined; none of them holds a marker the search did not return, and
\* find_marker_paths has recorded each one that holds set_path.txt.
C13_DeniedDirectoryDoesNotAbortScan ==
    WalkExhausted =>
        \A n \in 0..Cardinality(tree) : \A p \in Readable(drive, n) :
            /\ \E i \in 1..Len(examined) : examined[i] = [drive |-> drive, path |-> p, level |-> n]
            /\ script \in Scripts => ~MatchFiles(script, system, p, Entry(tree, p).files).found
            /\ (script = "simple_path_manager" /\ MARKER_FILENAME \in Range(Entry(tree, p).files))
                  => expand(system, p) \in Range(found)

\* find_marker_paths met a directory it could not list and recorded the marker of
\* a sibling that comes after it in the listing of their parent
C13_Witness ==
    /\ script = "simple_path_manager"
    /\ WalkExhausted
    /\ \E par \in tree :
         /\ \E k \in 1..Len(examined) : examined[k].drive = drive /\ examined[k].path = par.path
         /\ \E i, j \in 1..Len(par.subs) :
              /\ i < j
              /\ Join(system, par.path, par.subs[i]) \in denied
              /\ Join(system, par.path, par.subs[j]) \in Range(found)


\* ------------------------------------------------------------------------
\* The interactive programs: vocabulary
\* ------------------------------------------------------------------------
\* the conventional mount-point directories get_external_drives looks into
MountPoints == { <<"/","m","e","d","i","a">>, <<"/","m","n","t">>, <<"/","V","o","l","u","m","e","s">> }

\* the subfolders the running narrower lists for the current folder
Subfolders == listdir(tree, denied, path).names

\* one turn of the running narrower with input ch
Narrow(ch) == navigate_folder(ch) \/ choose_subfolder(ch)

\* C14: get_external_drives never raises because a mount-point directory cannot
\* be listed: that mount point is left out, and every entry of the mount points
\* that can be listed is returned.
C14_EnumerationSurvivesDeniedMountPoint ==
    script \in {"simple_path_manager", "path_setter", "subpathsetter"} =>
        /\ raised.in # "get_external_drives"
        /\ (system # "Windows" /\ pc \in {"drives", "bases"}) =>
              \A m \in MountPoints :
                  (Exists(tree, m) /\ m \notin denied
                     /\ (script = "simple_path_manager" \/ system = "Linux" \/ m = <<"/","V","o","l","u","m","e","s">>)) =>
                      \A i \in 1..Len(Entry(tree, m).subs) :
                          Join(system, m, Entry(tree, m).subs[i]) \in Range(options)

\* C15: in navigate_folder a "go back" restores path and history to exactly what
\* they were before the descent it undoes, at any nesting depth.
C15_BackRestoresPreDescent ==
    [][(script = "simple_path_manager" /\ pc = "browse" /\ pc' = "browse"
          /\ Len(snaps') < Len(snaps))
        => (path' = snaps[Len(snaps)][1] /\ history' = snaps[Len(snaps)][2])]_vars

\* two nested descents have been made and "go back" leads to the folder and the
\* history of before the second one
C15_Witness ==
    /\ script = "simple_path_manager"
    /\ pc = "browse"
    /\ Len(history) = 2
    /\ Len(snaps) = 2
    /\ ENABLED (navigate_folder(<<"b">>) /\ path' = snaps[2][1] /\ history' = snaps[2][2])

\* the first n elements of s
Take(s, n) == SubSeq(s, 1, IF Len(s) < n THEN Len(s) ELSE n)
NoDuplicates(s) == \A i, j \in 1..Len(s) : i # j => s[i] # s[j]

\* the entries recent.json held before the first run that are directories and
\* have not been used since
Carried ==
    IF first_file.kind = "list"
    THEN SelectSeq(first_file.items, LAMBDA p : Exists(tree, p) /\ p \notin Range(mru))
    ELSE <<>>

C17_OnlyUseChangesRecentList ==
    /\ [](pc = "cancelled" => recent_file = recent0)
    /\ [][recent_file' # recent_file
            => (script = "simple_path_manager" /\ pc = "browse" /\ pc' = "used")]_vars

\* a run that found a list written by earlier runs has ended with quit
C17_Witness ==
    /\ script = "simple_path_manager"
    /\ pc = "cancelled"
    /\ Len(mru) >= 2
    /\ recent_file = recent0
    /\ recent_file.kind = "list"

\* C18: load_recent returns the persisted entries that are directories, in their
\* persisted order, and drops the others; a missing or unreadable file, or one
\* that holds no list, gives the empty list and no exception.
C18_LoadRecentDropsStaleEntries ==
    script = "simple_path_manager" =>
        /\ raised.in # "load_recent"
        /\ pc = "recents" =>
              /\ recent_file.kind = "list"
              /\ options = SelectSeq(recent_file.items, LAMBDA p : Exists(tree, p))
        /\ pc = "main" =>
              ENABLED (MenuRecent /\ (recent_file.kind # "list" => (options' = <<>> /\ pc' = "main")))

\* the recent menu shows two folders of a list of three whose second entry names
\* no directory any more
C18_Witness ==
    /\ script = "simple_path_manager"
    /\ pc = "recents"
    /\ Len(recent_file.items) = 3
    /\ ~Exists(tree, recent_file.items[2])
    /\ options = <<recent_file.items[1], recent_file.items[3]>>

\* ch is what the operator types for "use current folder", "quit", "go back"
\* with a history to go back to, or the number of a listed subfolder
UseInput(ch) ==
    IF script = "simple_path_manager"
    THEN IntOk(StrLower(Strip(ch))) /\ IntOf(StrLower(Strip(ch))) = 1
    ELSE IntInputOk(ch) /\ IntInput(ch) = 0
QuitInput(ch) == script = "simple_path_manager" /\ StrLower(Strip(ch)) = <<"q">>
BackInput(ch) ==
    script = "simple_path_manager" /\ StrLower(Strip(ch)) = <<"b">> /\ history # <<>>
DescentInput(ch) ==
    IF script = "simple_path_manager"
    THEN /\ IntOk(StrLower(Strip(ch)))
         /\ 2 <= IntOf(StrLower(Strip(ch)))
         /\ IntOf(StrLower(Strip(ch))) <= Len(Subfolders) + 1
    ELSE IntInputOk(ch) /\ 1 <= IntInput(ch) /\ IntInput(ch) <= Len(Subfolders)
ValidInput(ch) == UseInput(ch) \/ QuitInput(ch) \/ BackInput(ch) \/ DescentInput(ch)

\* the narrower is at its prompt
Prompting ==
    /\ script \in {"simple_path_manager", "subpathsetter", "SetPathfromCSV"}
    /\ pc = "browse"
    /\ (script # "simple_path_manager" => Subfolders # <<>>)

\* C19: at the prompt of the narrower every input that is no valid transition (a
\* number out of range, 'b' with an empty history, any other text) leaves path and
\* history as they are and leads back to the prompt: it neither ends the session
\* nor raises.
C19_InvalidInputReprompts ==
    Prompting =>
        \A ch \in NavInputs :
            ~ValidInput(ch) =>
                ~ENABLED (Narrow(ch) /\ ~(pc' = "browse" /\ path' = path /\ history' = history))

\* C20: in a folder without listable subfolders (empty or unreadable) the narrower
\* stays at its prompt: "use current folder" returns the folder, "quit" cancels,
\* "go back" works when there is a history, no input descends, and the session
\* ends only on the operator's "use" or "quit".
C20_NoSubfoldersStillBrowsing ==
    (/\ script \in {"simple_path_manager", "subpathsetter", "SetPathfromCSV"}
     /\ pc = "browse"
     /\ Subfolders = <<>>) =>
        /\ \E ch \in NavInputs : ENABLED (Narrow(ch) /\ pc' = "used" /\ chosen' = Str(path))
        /\ \E ch \in NavInputs : ENABLED (Narrow(ch) /\ pc' = "cancelled")
        /\ history # <<>> =>
              \E ch \in NavInputs : ENABLED (Narrow(ch) /\ pc' = "browse"
                                               /\ path' = history[Len(history)])
        /\ \A ch \in NavInputs :
              /\ ~ENABLED (Narrow(ch) /\ pc' = "browse" /\ path' # path
                             /\ Len(path') > Len(path))
              /\ ~(UseInput(ch) \/ QuitInput(ch)) =>
                    ~ENABLED (Narrow(ch) /\ pc' \in {"used", "cancelled"})

\* C21: a match reported for the target _setpath_ comes from a file whose name is
\* exactly _setpath_, and a match reported for _setthispath_ from a file whose
\* name is exactly _setthispath_; a name that only contains one of them is no
\* match for either.
C21_MarkerNamesMatchExactly ==
    script \in Scripts =>
        \A k \in 1..Len(converted) :
            /\ converted[k].target_file = SETPATH => MatchedName(converted[k]) = SETPATH
            /\ converted[k].target_file = SETTHISPATH => MatchedName(converted[k]) = SETTHISPATH

\* C22: for every directory os.walk hands to the loop of search_for_setpath_file
\* the computed depth is the number of directory levels between the scan root and
\* the directory (the root 0, its immediate children 1), whether or not the scan
\* root ends with a path separator.
C22_DepthIsLevelBelowScanRoot ==
    script \in Scripts =>
        \A v \in listed : depth(system, v.drive, v.path) = v.level

\* the directories that hold the marker file set_path.txt
HoldsMarkerFile == {d.path : d \in {x \in tree : MARKER_FILENAME \in Range(x.files)}}

\* the bases of base_dirs that are directories, as find_marker_paths scans them
ExistingBases ==
    {b \in {expand(system, base_dirs[i]) : i \in 1..Len(base_dirs)} : Exists(tree, b)}

\* the bases under which p lies at a relative depth within max_depth
BasesCovering(p) ==
    {b \in ExistingBases : \E n \in 0..scan_depth : p \in LevelSet(b, n)}

C24_HistoryIsAncestorChain ==
    (script = "simple_path_manager" /\ pc = "browse") =>
        /\ Len(history) = Len(snaps)
        /\ history = <<>> => path = expand(system, start_path)
        /\ history # <<>> =>
              /\ history[1] = expand(system, start_path)
              /\ Last(history) = Dirname(system, path)
        /\ \A i \in 1..(Len(history) - 1) : history[i] = Dirname(system, history[i + 1])

\* the operator went two folders down from the start path
C24_Witness ==
    /\ script = "simple_path_manager"
    /\ pc = "browse"
    /\ Len(history) = 2
    /\ history[1] = expand(system, start_path)
    /\ history[2] = Dirname(system, path)
    /\ history[1] = Dirname(system, history[2])

\* C25: a table reference whose digits denote row number 0 (_setfromcsv_a0_) gives
\* the row index -1; the lookup fails for it and returns the content of no cell.
C25_RowZeroLookupFails ==
    script \in {"autoPath_v1_0", "autoPath_v1"} =>
        \A k \in 1..Len(converted) :
            (HasTableRef(MatchedName(converted[k])) /\ AddressRow(MatchedName(converted[k])) = -1) =>
                /\ RowOf(CellOf(script, converted[k].target_file)) = -1
                /\ converted[k].value = None

====
